---- MODULE Spec2Model ----
(***************************************************************************)
(* Query router: POST /route handler, RouterService.route_query,           *)
(* QueryClassifier.classify, LLMRouter.route and PromptGuard.check_query.  *)
(* Confidences and scores are hundredths (0.75 is 75, 1.0 is 100); times   *)
(* are whole milliseconds.  A Python value that may be of several types is *)
(* a record [py |-> type name, s |-> text]; a query is                     *)
(* [py |-> type name, chars |-> its characters].                           *)
(***************************************************************************)
EXTENDS Integers, Sequences, FiniteSets, TLC

VARIABLES pc, entry, query, history, trace_id, timing_enabled,
          guardModel, processed_history, primary, completion, llm_result,
          decision, timing, response, now, uuids,
          classifierCalls, scorerCalls, gateCalls, llmCalls, completionCalls,
          cache, guard, cls, reqs, minted, prompt, handler, running

\* the state of a lone LLMRouter._build_prompt call, of a lone run of the
\* POST /route handler and of the serving loop
rest == <<prompt, handler, running>>

\* the state of the PromptGuard, of a lone QueryClassifier call and of the
\* requests in flight together
aux == <<cache, guard, cls, reqs, minted, rest>>

vars == <<pc, entry, query, history, trace_id, timing_enabled,
          guardModel, processed_history, primary, completion, llm_result,
          decision, timing, response, now, uuids,
          classifierCalls, scorerCalls, gateCalls, llmCalls, completionCalls,
          cache, guard, cls, reqs, minted, prompt, handler, running>>

(* ---------------------------- bounds ----------------------------------- *)

\* identifiers uuid4 may mint in one run
MaxUuid == 2
\* longest time one capability call takes
MaxElapsed == 1
\* requests in flight together
MaxRequests == 2
MaxLen == 4
\* turns of a history handed to _build_prompt
MaxHistory == 3
\* distinct texts handed to the safety check in one run
MaxTexts == 130
\* checks of an already seen text in one run
MaxRechecks == 1

(* ------------------------- Python values -------------------------------- *)

PyStr(s) == [py |-> "str", s |-> s]
PyNone == [py |-> "NoneType", s |-> "None"]

Str(cs) == [py |-> "str", chars |-> cs]

\* `not query` is the negation of this
Truthy(q) ==
  CASE q.py = "str" -> Len(q.chars) > 0
    [] q.py = "int" -> q.chars # <<"0">>
    [] OTHER -> FALSE

Whitespace == {" ", "\t", "\n"}
Letters == {"a", "d", "e", "g", "h", "i", "l", "n", "p", "r", "s", "t", "y",
            "c", "m", "o", "x", "k", "H", "P", "C"}
Digits == {"0", "1", "2"}
WordChars == Letters \cup Digits \cup {"_"}
Terminal == {".", "!", "?"}

EmptyDict == [k \in {} |-> 0]

(* --------------------- QueryClassifier (classifier.py) ----------------- *)

LABELS == <<"simple", "semantic", "agent">>

RECURSIVE lstrip(_)
lstrip(cs) ==
  IF cs # <<>> /\ Head(cs) \in Whitespace THEN lstrip(Tail(cs)) ELSE cs

RECURSIVE rstrip(_)
rstrip(cs) ==
  IF cs # <<>> /\ cs[Len(cs)] \in Whitespace
  THEN rstrip(SubSeq(cs, 1, Len(cs) - 1)) ELSE cs

strip(cs) == rstrip(lstrip(cs))

\* re.sub(r'\s+', ' ', cs)
RECURSIVE collapse_whitespace(_)
collapse_whitespace(cs) ==
  IF cs = <<>> THEN <<>>
  ELSE IF Head(cs) \in Whitespace
       THEN <<" ">> \o collapse_whitespace(lstrip(cs))
       ELSE <<Head(cs)>> \o collapse_whitespace(Tail(cs))

RECURSIVE skip_terminal(_)
skip_terminal(cs) ==
  IF cs # <<>> /\ Head(cs) \in Terminal THEN skip_terminal(Tail(cs)) ELSE cs

\* re.sub(r'[.!?]{2,}', '.', cs)
RECURSIVE collapse_punctuation(_)
collapse_punctuation(cs) ==
  IF cs = <<>> THEN <<>>
  ELSE IF Head(cs) \in Terminal /\ Len(cs) >= 2 /\ cs[2] \in Terminal
       THEN <<".">> \o collapse_punctuation(skip_terminal(cs))
       ELSE <<Head(cs)>> \o collapse_punctuation(Tail(cs))

\* re.sub(r'[^\w\s.,!?]', '', cs)
strip_disallowed(cs) ==
  SelectSeq(cs, LAMBDA c : c \in WordChars \cup Whitespace \cup Terminal \cup {","})

lower_char(c) ==
  CASE c = "H" -> "h" [] c = "P" -> "p" [] c = "C" -> "c" [] OTHER -> c

RECURSIVE lower(_)
lower(cs) ==
  IF cs = <<>> THEN <<>> ELSE <<lower_char(Head(cs))>> \o lower(Tail(cs))

Contains(cs, kw) ==
  \E i \in 1..Len(cs) :
    i + Len(kw) - 1 <= Len(cs) /\ SubSeq(cs, i, i + Len(kw) - 1) = kw

Keywords == { <<"p","l","a","n">>, <<"d","e","s","i","g","n">>,
              <<"s","t","r","a","t","e","g","y">>,
              <<"r","e","s","e","a","r","c","h">> }

ComplexPrefix ==
  <<"C","o","m","p","l","e","x"," ","t","a","s","k",":"," ">>

\* the message of the exception preprocess_query raises, "" when it returns
preprocess_error(q) ==
  IF ~Truthy(q) THEN "Query cannot be empty"
  ELSE IF q.py # "str" THEN "object has no attribute 'strip'"
  ELSE IF strip(q.chars) = <<>> THEN "Query cannot be empty"
  ELSE ""

\* the text preprocess_query returns when it does not raise
preprocess_query(q) ==
  LET a == collapse_whitespace(strip(q.chars))
      b == collapse_punctuation(a)
      c == strip_disallowed(b)
  IN IF \E kw \in Keywords : Contains(lower(c), kw)
     THEN ComplexPrefix \o c ELSE c

\* result["scores"].index(max(result["scores"]))
argmax_index(scores) ==
  CHOOSE i \in 1..Len(scores) :
    /\ \A j \in 1..Len(scores) : scores[j] <= scores[i]
    /\ \A j \in 1..(i - 1) : scores[j] < scores[i]

classify_history_aware(q, h, scorer) ==
  IF preprocess_error(q) # ""
  THEN [status |-> "raised", message |-> preprocess_error(q), route |-> "",
        confidence |-> 0, scorer_called |-> FALSE]
  ELSE IF ~scorer.ok
  THEN [status |-> "raised", message |-> scorer.message, route |-> "",
        confidence |-> 0, scorer_called |-> TRUE]
  ELSE LET label_idx == argmax_index(scorer.scores)
       IN [status |-> "returned", message |-> "",
           route |-> IF h.turns # <<>> THEN "semantic" ELSE LABELS[label_idx],
           confidence |-> scorer.scores[label_idx], scorer_called |-> TRUE]

\* outcome of classify(query, history) given what the scorer does when called
classify(q, h, scorer) ==
  IF preprocess_error(q) # ""
  THEN [status |-> "raised", message |-> preprocess_error(q), route |-> "",
        confidence |-> 0, scorer_called |-> FALSE]
  ELSE IF ~scorer.ok
  THEN [status |-> "raised", message |-> scorer.message, route |-> "",
        confidence |-> 0, scorer_called |-> TRUE]
  ELSE LET label_idx == argmax_index(scorer.scores)
       IN [status |-> "returned", message |-> "",
           route |-> LABELS[label_idx],
           confidence |-> scorer.scores[label_idx], scorer_called |-> TRUE]

(* ------------------------ LLMRouter (llm_router.py) -------------------- *)

\* completion texts on which json.loads raises
NotJsonTexts == {"not a json", ""}

JsonType(text) ==
  CASE text \in {"\"route\"", "\"Paris\""} -> "str"
    [] text \in {"[\"route\"]"} -> "list"
    [] text = "42" -> "int"
    [] text = "null" -> "NoneType"
    [] OTHER -> "dict"

\* json.loads(content) when it does not raise
json_loads(content) == [py |-> JsonType(content.s), s |-> content.s]

json_loads_raises(content) == content.py # "str" \/ content.s \in NotJsonTexts

\* `"route" in result` raises TypeError on a value that is not a container
contains_raises(result) == result.py \in {"int", "NoneType"}

\* `"route" in result`: key of a dict, substring of a str, element of a list
contains_route(result) ==
  CASE result.py = "dict" -> result.s # "{\"answer\": \"Paris\"}"
    [] result.py = "str" -> result.s = "\"route\""
    [] result.py = "list" -> result.s = "[\"route\"]"
    [] OTHER -> FALSE

\* result["route"] raises TypeError unless result is a dict
getitem_raises(result) == result.py # "dict"

getitem_route_validated(result) ==
  CASE result.s = "{\"route\": \"simple\"}" -> PyStr("simple")
    [] result.s = "{\"route\": \"agent\"}" -> PyStr("agent")
    [] OTHER -> PyStr("semantic")

\* result["route"] of a parsed object
getitem_route(result) ==
  CASE result.s = "{\"route\": \"simple\"}" -> PyStr("simple")
    [] result.s = "{\"route\": \"semantic\"}" -> PyStr("semantic")
    [] result.s = "{\"route\": \"agent\"}" -> PyStr("agent")
    [] result.s = "{\"route\": \"complex\"}" -> PyStr("complex")
    [] result.s = "{\"route\": \"error\"}" -> PyStr("error")
    [] result.s = "{\"route\": \"blocked\"}" -> PyStr("blocked")
    [] OTHER -> PyNone

SystemInstruction ==
  "You are a router. Classify the user's query into one of: simple, semantic, or agent. Respond ONLY with a JSON object: {\"route\": \"simple|semantic|agent\"}"

build_prompt_newest_first(q, h) ==
  <<[role |-> "system", content |-> SystemInstruction]>>
  \o (IF ~h.isNone /\ h.turns # <<>>
      THEN [i \in 1..Len(h.turns) |->
              [role |-> "user", content |-> h.turns[Len(h.turns) + 1 - i]]]
      ELSE <<>>)
  \o <<[role |-> "user", content |-> q]>>

\* LLMRouter._build_prompt(query, history)
build_prompt(q, h) ==
  <<[role |-> "system", content |-> SystemInstruction]>>
  \o (IF ~h.isNone /\ h.turns # <<>>
      THEN [i \in 1..Len(h.turns) |->
              [role |-> "user", content |-> h.turns[i]]]
      ELSE <<>>)
  \o <<[role |-> "user", content |-> q]>>

parse_fails_decode_only(content) == json_loads_raises(content)

\* the inner try block of route() raises
parse_fails(content) ==
  \/ json_loads_raises(content)
  \/ contains_raises(json_loads(content))
  \/ ~contains_route(json_loads(content))
  \/ getitem_raises(json_loads(content))

completion_calls_retrying(c) ==
  IF c.ok /\ c.has_choices /\ ~parse_fails(c.content) THEN 1 ELSE 2

\* the litellm.completion calls one call of route makes (line 56, no loop)
completion_calls(c) == 1

LLMRouter_route_keeps_raw(c) ==
  IF ~c.ok \/ ~c.has_choices
  THEN [route |-> PyStr("semantic"), error |-> "api_error", raw |-> c.content]
  ELSE IF parse_fails(c.content)
  THEN [route |-> PyStr("semantic"), error |-> "json_parse_error",
        raw |-> c.content]
  ELSE [route |-> getitem_route(json_loads(c.content)),
        raw |-> json_loads(c.content)]

\* LLMRouter.route given what litellm.completion does when called
LLMRouter_route(c) ==
  IF ~c.ok
  THEN [route |-> PyStr("semantic"), error |-> c.message]
  ELSE IF ~c.has_choices
  THEN [route |-> PyStr("semantic"), error |-> "'choices'"]
  ELSE IF parse_fails(c.content)
  THEN [route |-> PyStr("semantic"), error |-> "json_parse_error",
        raw |-> c.content]
  ELSE [route |-> getitem_route(json_loads(c.content)),
        raw |-> json_loads(c.content)]

(* ----------------------- PromptGuard (prompt_guard.py) ----------------- *)

Max(a, b) == IF a >= b THEN a ELSE b

classify_text_fail_closed(q, model) ==
  IF ~Truthy(q) \/ strip(q.chars) = <<>> THEN [safe |-> 100, dangerous |-> 0]
  ELSE IF ~model.ok THEN [safe |-> 0, dangerous |-> 100]
  ELSE [safe |-> model.safe, dangerous |-> model.dangerous]

\* _classify_text given what the safety model does when called
classify_text(q, model) ==
  IF ~Truthy(q) \/ strip(q.chars) = <<>> THEN [safe |-> 100, dangerous |-> 0]
  ELSE IF ~model.ok THEN [safe |-> 100, dangerous |-> 0]
  ELSE [safe |-> model.safe, dangerous |-> model.dangerous]

query_verdict_ties_safe(result) ==
  [is_safe |-> result.safe >= result.dangerous,
   confidence |-> Max(result.safe, result.dangerous)]

\* check_query lines 183-193: the verdict on the scores of the query
query_verdict(result) ==
  [is_safe |-> result.safe > result.dangerous,
   confidence |-> Max(result.safe, result.dangerous)]

\* check_response lines 208-218: the verdict on the scores of the response
response_verdict(result) ==
  [is_safe |-> result.safe > result.dangerous,
   confidence |-> Max(result.safe, result.dangerous)]

check_query(q, model) == query_verdict(classify_text(q, model))

LruMaxsize == 128

\* lru_cache: the entries, least recently used first
cache_hit(c, q) == \E i \in 1..Len(c) : c[i].text = q

cache_get(c, q) == c[CHOOSE i \in 1..Len(c) : c[i].text = q].result

cache_touch_no_refresh(c, q) == c

cache_touch(c, q) ==
  SelectSeq(c, LAMBDA e : e.text # q) \o SelectSeq(c, LAMBDA e : e.text = q)

cache_put(c, q, result) ==
  LET full == c \o <<[text |-> q, result |-> result]>>
  IN IF Len(full) > LruMaxsize THEN Tail(full) ELSE full

\* the memoized _classify_text: the scores, the cache afterwards and what
\* happened (a cache hit, an empty text, the model raised, the model scored)
cached_classify_text(c, q, model) ==
  IF cache_hit(c, q)
  THEN [result |-> cache_get(c, q), cache |-> cache_touch(c, q),
        outcome |-> "hit"]
  ELSE [result |-> classify_text(q, model),
        cache |-> cache_put(c, q, classify_text(q, model)),
        outcome |-> IF ~Truthy(q) \/ strip(q.chars) = <<>> THEN "empty"
                    ELSE IF ~model.ok THEN "raised" ELSE "scored"]

block_type(is_query) == IF is_query THEN "query" ELSE "response"

get_blocked_response_route_blocked(is_query) ==
  [route |-> PyStr("blocked"), confidence |-> 0, flag |-> "blocked",
   message |-> <<"The ", block_type(is_query),
                 " was flagged as potentially unsafe and has been blocked.">>]

\* get_blocked_response; the message is the parts of the f-string
get_blocked_response(is_query) ==
  [route |-> PyStr("semantic"), confidence |-> 0, flag |-> "blocked",
   message |-> <<"The ", block_type(is_query),
                 " was flagged as potentially unsafe and has been blocked.">>]

(* ------------------------------ inputs --------------------------------- *)

PyInt(cs) == [py |-> "int", chars |-> cs]
NoneQuery == [py |-> "NoneType", chars |-> <<>>]

Queries ==
  { Str(<<>>), Str(<<" ">>), Str(<<"H", "i", "?">>),
    Str(<<"p", "l", "a", "n">>), NoneQuery, PyInt(<<"0">>), PyInt(<<"1", "2">>) }

UserTurn == [py |-> "dict", keys |-> {"user"}]
AssistantTurn == [py |-> "dict", keys |-> {"assistant"}]
RoleTurn == [py |-> "dict", keys |-> {"role", "content"}]
TextTurn == [py |-> "str", keys |-> {}]

NoHistory == [given |-> FALSE, turns |-> <<>>]

Histories ==
  { NoHistory, [given |-> TRUE, turns |-> <<>>],
    [given |-> TRUE, turns |-> <<UserTurn, RoleTurn, AssistantTurn>>],
    [given |-> TRUE, turns |-> <<TextTurn, UserTurn>>] }

ScoreValues == {5, 74, 75, 91}

ScorerOutcomes ==
  { [ok |-> TRUE, scores |-> <<a, b, c>>] :
      a \in ScoreValues, b \in ScoreValues, c \in ScoreValues }
  \cup { [ok |-> FALSE, message |-> "CUDA out of memory"] }

CompletionTexts ==
  { "not a json", "", "{\"route\": \"simple\"}", "{\"route\": \"semantic\"}",
    "{\"route\": \"agent\"}", "{\"route\": \"complex\"}", "{\"route\": null}",
    "{\"route\": \"error\"}", "{\"route\": \"blocked\"}",
    "{\"answer\": \"Paris\"}", "\"route\"", "\"Paris\"", "[\"route\"]", "42",
    "null" }

\* litellm.completion raises, or returns a response without choices, or
\* returns a response whose message content is a text or None
CompletionOutcomes ==
  { [ok |-> TRUE, has_choices |-> TRUE, content |-> PyStr(t), message |-> ""] :
      t \in CompletionTexts }
  \cup { [ok |-> TRUE, has_choices |-> TRUE, content |-> PyNone, message |-> ""],
         [ok |-> TRUE, has_choices |-> FALSE, content |-> PyNone, message |-> ""] }
  \cup { [ok |-> FALSE, has_choices |-> FALSE, content |-> PyNone, message |-> m] :
           m \in {"API error!", "Request timed out"} }

NoCompletion ==
  [ok |-> FALSE, has_choices |-> FALSE, content |-> PyNone, message |-> ""]

GuardModels ==
  { [ok |-> TRUE, safe |-> 90, dangerous |-> 10],
    [ok |-> TRUE, safe |-> 20, dangerous |-> 80],
    [ok |-> TRUE, safe |-> 50, dangerous |-> 50],
    [ok |-> FALSE, safe |-> 0, dangerous |-> 0] }

NoTrace == [src |-> "none", n |-> 0]
CallerTrace == [src |-> "caller", n |-> 0]
Uuid(n) == [src |-> "uuid4", n |-> n]

handler_trace_id_shared(n) == Uuid(1)

\* router.py line 38: str(uuid4()) after n identifiers were minted
handler_trace_id(n) == Uuid(n + 1)

ClassifierModelName == "facebook/bart-large-mnli"

(* ------------------ RouterService (router_service.py) ------------------ *)

THRESHOLD == 75

NoProcessedHistory == [isNone |-> TRUE, turns |-> <<>>]

\* lines 57-68: keep the dict turns that have a 'user' or 'assistant' key
process_history(h) ==
  IF ~h.given \/ h.turns = <<>> THEN NoProcessedHistory
  ELSE [isNone |-> FALSE,
        turns |-> SelectSeq(h.turns,
                    LAMBDA msg : msg.py = "dict"
                                 /\ msg.keys \cap {"user", "assistant"} # {})]

invalid_query_falsy_only(q) == ~Truthy(q)

invalid_query_type_only(q) == q.py # "str"

\* line 48
invalid_query(q) == ~Truthy(q) \/ q.py # "str"

\* lines 70-72: the safety check of route_query
is_safe(q, model) == TRUE

accept_primary_any_route(r, confidence) == confidence >= THRESHOLD

accept_primary_strict(r, confidence) == r = "simple" /\ confidence > THRESHOLD

\* line 100
accept_primary(r, confidence) == r = "simple" /\ confidence >= THRESHOLD

error_decision_generic(message, tid) ==
  [route |-> PyStr("error"), confidence |-> 0,
   error |-> "Failed to process query", trace_id |-> tid]

error_decision(message, tid) ==
  [route |-> PyStr("error"), confidence |-> 0, error |-> message,
   trace_id |-> tid]

blocked_decision(tid) ==
  [route |-> PyStr("blocked"), confidence |-> 100,
   reason |-> "Query contains unsafe content", trace_id |-> tid]

primary_decision(r, confidence, tid) ==
  [route |-> PyStr(r), confidence |-> confidence, trace_id |-> tid,
   model |-> ClassifierModelName]

fallback_decision_keeps_primary(result, r, confidence, tid) ==
  [route |-> PyStr(r), confidence |-> confidence, trace_id |-> tid,
   model |-> "llm", llm_raw |-> result]

\* lines 123-131
fallback_decision(result, r, confidence, tid) ==
  [route |-> IF "route" \in DOMAIN result THEN result.route ELSE PyStr(r),
   confidence |-> IF "confidence" \in DOMAIN result
                  THEN result.confidence ELSE confidence,
   trace_id |-> tid, model |-> "llm", llm_raw |-> result]

Put_nothing(d, k, v) == d

Put(d, k, v) == [x \in DOMAIN d \cup {k} |-> IF x = k THEN v ELSE d[x]]

(* ------------------------------ state ---------------------------------- *)

NoPrimary == [status |-> "none", message |-> "", route |-> "", confidence |-> 0]

\* the variables of one request going through the handler and route_query
main == <<pc, entry, query, history, trace_id, timing_enabled,
          guardModel, processed_history, primary, completion, llm_result,
          decision, timing, response, now, uuids,
          classifierCalls, scorerCalls, gateCalls, llmCalls, completionCalls>>

NoGuardCall == [op |-> "none"]
NoClassifierCall == [pc |-> "idle"]
Requests == 1..MaxRequests
NoRequest == [pc |-> "idle"]

NoPromptCall == [pc |-> "idle"]

NoHandlerRun == [pc |-> "idle"]

Init ==
  /\ pc = "idle"
  /\ entry = "none"
  /\ query = NoneQuery
  /\ history = NoHistory
  /\ trace_id = NoTrace
  /\ timing_enabled = FALSE
  /\ guardModel = [ok |-> FALSE, safe |-> 0, dangerous |-> 0]
  /\ processed_history = NoProcessedHistory
  /\ primary = NoPrimary
  /\ completion = NoCompletion
  /\ llm_result = EmptyDict
  /\ decision = EmptyDict
  /\ timing = EmptyDict
  /\ response = EmptyDict
  /\ now = 0
  /\ uuids = 0
  /\ classifierCalls = 0
  /\ scorerCalls = 0
  /\ gateCalls = 0
  /\ llmCalls = 0
  /\ completionCalls = 0
  /\ cache = <<>>
  /\ guard = NoGuardCall
  /\ cls = NoClassifierCall
  /\ reqs = [r \in Requests |-> NoRequest]
  /\ minted = 0
  /\ prompt = NoPromptCall
  /\ handler = NoHandlerRun
  /\ running = 0

\* RouterService.route_query is called directly
DirectCall ==
  /\ pc = "idle"
  /\ \E q \in Queries, h \in Histories, tid \in {NoTrace, CallerTrace},
        te \in BOOLEAN, g \in GuardModels :
       /\ tid = NoTrace => uuids < MaxUuid
       /\ query' = q
       /\ history' = h
       /\ trace_id' = tid
       /\ timing_enabled' = te
       /\ guardModel' = g
  /\ entry' = "direct"
  /\ pc' = "route_query"
  /\ UNCHANGED <<completion, processed_history, primary, llm_result, decision, timing,
                 response, now, uuids, classifierCalls, scorerCalls,
                 gateCalls, llmCalls, completionCalls>>
  /\ UNCHANGED aux

\* RouteRequest: query is a str, history is absent or a list of dicts
valid_body(q, h) ==
  q.py = "str" /\ \A i \in 1..Len(h.turns) : h.turns[i].py = "dict"

\* POST /route with a body that RouteRequest rejects
HttpMalformed ==
  /\ pc = "idle"
  /\ \E q \in Queries, h \in Histories :
       /\ ~valid_body(q, h)
       /\ query' = q
       /\ history' = h
  /\ entry' = "http"
  /\ response' = [status |-> 422, detail |-> "Unprocessable Entity"]
  /\ pc' = "responded"
  /\ UNCHANGED <<completion, trace_id, timing_enabled, guardModel, processed_history,
                 primary, llm_result, decision, timing, now, uuids,
                 classifierCalls, scorerCalls, gateCalls, llmCalls,
                 completionCalls>>
  /\ UNCHANGED aux

\* POST /route: the handler mints the trace id and calls route_query
HttpPost ==
  /\ pc = "idle"
  /\ uuids < MaxUuid
  /\ \E q \in Queries, h \in Histories, g \in GuardModels :
       /\ valid_body(q, h)
       /\ query' = q
       /\ history' = h
       /\ guardModel' = g
  /\ trace_id' = handler_trace_id(uuids)
  /\ uuids' = uuids + 1
  /\ timing_enabled' = TRUE
  /\ entry' = "http"
  /\ pc' = "route_query"
  /\ UNCHANGED <<completion, processed_history, primary, llm_result, decision, timing,
                 response, now, classifierCalls, scorerCalls, gateCalls,
                 llmCalls, completionCalls>>
  /\ UNCHANGED aux

\* route_query from entry to the end of the safety check
RouteQueryEnter ==
  /\ pc = "route_query"
  /\ LET tid == IF trace_id = NoTrace THEN Uuid(uuids + 1) ELSE trace_id
     IN /\ trace_id' = tid
        /\ uuids' = IF trace_id = NoTrace THEN uuids + 1 ELSE uuids
        /\ timing' = EmptyDict
        /\ now' = 0
        /\ IF invalid_query(query)
           THEN /\ decision' = error_decision("Invalid query format", tid)
                /\ pc' = "returned"
                /\ UNCHANGED processed_history
           ELSE /\ processed_history' = process_history(history)
                /\ IF ~is_safe(query, guardModel)
                   THEN /\ decision' = blocked_decision(tid)
                        /\ pc' = "returned"
                   ELSE /\ pc' = "classify"
                        /\ UNCHANGED decision
  /\ UNCHANGED <<completion, entry, query, history, timing_enabled, guardModel, primary,
                 llm_result, response, classifierCalls, scorerCalls,
                 gateCalls, llmCalls, completionCalls>>
  /\ UNCHANGED aux

Classify_falls_back_on_failure ==
  /\ pc = "classify"
  /\ \E scorer \in ScorerOutcomes, d \in 0..MaxElapsed :
       LET r == classify(query, processed_history, scorer)
           t1 == IF timing_enabled
                 THEN Put(timing, "classifier_time_ms", d) ELSE timing
       IN /\ now' = now + d
          /\ classifierCalls' = classifierCalls + 1
          /\ scorerCalls' = scorerCalls + (IF r.scorer_called THEN 1 ELSE 0)
          /\ primary' = [status |-> r.status, message |-> r.message,
                          route |-> r.route, confidence |-> r.confidence]
          /\ IF r.status = "raised"
             THEN /\ pc' = "fallback"
                  /\ UNCHANGED <<decision, timing>>
             ELSE /\ IF accept_primary(r.route, r.confidence)
                     THEN /\ timing' =
                               IF timing_enabled
                               THEN Put(Put(t1, "llm_time_ms", 0),
                                        "total_router_time_ms", now + d)
                               ELSE t1
                          /\ decision' =
                               primary_decision(r.route, r.confidence, trace_id)
                          /\ pc' = "returned"
                     ELSE /\ timing' = t1
                          /\ pc' = "fallback"
                          /\ UNCHANGED decision
  /\ UNCHANGED <<completion, entry, query, history, trace_id, timing_enabled, guardModel,
                 processed_history, llm_result, response, uuids, gateCalls,
                 llmCalls, completionCalls>>
  /\ UNCHANGED aux

\* route_query: the primary classification and the acceptance policy
Classify ==
  /\ pc = "classify"
  /\ \E scorer \in ScorerOutcomes, d \in 0..MaxElapsed :
       LET r == classify(query, processed_history, scorer)
           t1 == IF timing_enabled
                 THEN Put(timing, "classifier_time_ms", d) ELSE timing
       IN /\ now' = now + d
          /\ classifierCalls' = classifierCalls + 1
          /\ scorerCalls' = scorerCalls + (IF r.scorer_called THEN 1 ELSE 0)
          /\ primary' = [status |-> r.status, message |-> r.message,
                          route |-> r.route, confidence |-> r.confidence]
          /\ IF r.status = "raised"
             THEN /\ decision' = error_decision(r.message, trace_id)
                  /\ pc' = "returned"
                  /\ UNCHANGED timing
             ELSE /\ IF accept_primary(r.route, r.confidence)
                     THEN /\ timing' =
                               IF timing_enabled
                               THEN Put(Put(t1, "llm_time_ms", 0),
                                        "total_router_time_ms", now + d)
                               ELSE t1
                          /\ decision' =
                               primary_decision(r.route, r.confidence, trace_id)
                          /\ pc' = "returned"
                     ELSE /\ timing' = t1
                          /\ pc' = "fallback"
                          /\ UNCHANGED decision
  /\ UNCHANGED <<completion, entry, query, history, trace_id, timing_enabled, guardModel,
                 processed_history, llm_result, response, uuids, gateCalls,
                 llmCalls, completionCalls>>
  /\ UNCHANGED aux

\* route_query: the LLM fallback
Fallback ==
  /\ pc = "fallback"
  /\ \E c \in CompletionOutcomes, d \in 0..MaxElapsed :
       LET result == LLMRouter_route(c)
       IN /\ completion' = c
          /\ llm_result' = result
          /\ now' = now + d
          /\ timing' = IF timing_enabled
                       THEN Put(Put(timing, "llm_time_ms", d),
                                "total_router_time_ms", now + d)
                       ELSE timing
          /\ decision' = fallback_decision(result, primary.route,
                                           primary.confidence, trace_id)
  /\ llmCalls' = llmCalls + 1
  /\ completionCalls' = completionCalls + completion_calls(completion')
  /\ pc' = "returned"
  /\ UNCHANGED <<entry, query, history, trace_id, timing_enabled, guardModel,
                 processed_history, primary, response, uuids, classifierCalls,
                 scorerCalls, gateCalls>>
  /\ UNCHANGED aux

\* the direct caller receives (decision, timing)
Return ==
  /\ pc = "returned"
  /\ entry = "direct"
  /\ pc' = "done"
  /\ UNCHANGED <<completion, entry, query, history, trace_id, timing_enabled, guardModel,
                 processed_history, primary, llm_result, decision, timing,
                 response, now, uuids, classifierCalls, scorerCalls,
                 gateCalls, llmCalls, completionCalls>>
  /\ UNCHANGED aux

\* RouteResponse: route is a str, confidence a number in [0, 1]
valid_response(result) ==
  result.route.py = "str" /\ result.confidence \in 0..100

\* router.py lines 59-122: the status the handler answers with
http_response(result, tid) ==
  IF result.route = PyStr("blocked")
  THEN [status |-> 400,
        detail |-> IF "reason" \in DOMAIN result THEN result.reason
                   ELSE "Query contains unsafe content"]
  ELSE IF result.route = PyStr("error")
  THEN [status |-> 500,
        detail |-> IF "error" \in DOMAIN result THEN result.error
                   ELSE "Failed to process query"]
  ELSE IF ~valid_response(result)
  THEN [status |-> 422, detail |-> "Invalid request format"]
  ELSE [status |-> 200, route |-> result.route,
        confidence |-> result.confidence,
        trace_id |-> IF "trace_id" \in DOMAIN result THEN result.trace_id
                     ELSE tid]

\* POST /route: the handler turns the decision into the HTTP response
HttpRespond ==
  /\ pc = "returned"
  /\ entry = "http"
  /\ response' = http_response(decision, trace_id)
  /\ pc' = "responded"
  /\ UNCHANGED <<completion, entry, query, history, trace_id, timing_enabled, guardModel,
                 processed_history, primary, llm_result, decision, timing,
                 now, uuids, classifierCalls, scorerCalls, gateCalls,
                 llmCalls, completionCalls>>
  /\ UNCHANGED aux

\* the request is over; the service waits for the next one
NextRequest ==
  /\ pc \in {"done", "responded"}
  /\ pc' = "idle"
  /\ entry' = "none"
  /\ query' = NoneQuery
  /\ history' = NoHistory
  /\ trace_id' = NoTrace
  /\ timing_enabled' = FALSE
  /\ guardModel' = [ok |-> FALSE, safe |-> 0, dangerous |-> 0]
  /\ processed_history' = NoProcessedHistory
  /\ primary' = NoPrimary
  /\ completion' = NoCompletion
  /\ llm_result' = EmptyDict
  /\ decision' = EmptyDict
  /\ timing' = EmptyDict
  /\ response' = EmptyDict
  /\ now' = 0
  /\ classifierCalls' = 0
  /\ scorerCalls' = 0
  /\ gateCalls' = 0
  /\ llmCalls' = 0
  /\ completionCalls' = 0
  /\ UNCHANGED uuids
  /\ UNCHANGED aux

Next ==
  \/ DirectCall
  \/ HttpMalformed
  \/ HttpPost
  \/ RouteQueryEnter
  \/ Classify
  \/ Fallback
  \/ Return
  \/ HttpRespond
  \/ NextRequest

Spec == Init /\ [][Next]_vars

\* route_query runs on once called: each of its steps is taken when the
\* capability call it waits for has returned or raised
SpecFair ==
  /\ Spec
  /\ WF_vars(RouteQueryEnter)
  /\ WF_vars(Classify)
  /\ WF_vars(Fallback)

(* ---------------------- PromptGuard on its own -------------------------- *)

GuardTexts ==
  { Str(<<>>), Str(<<" ">>), Str(<<"H", "i", "?">>),
    Str(<<"p", "l", "a", "n">>) }

NoModelCall == [ok |-> FALSE, safe |-> 0, dangerous |-> 0]

guard_call(op, q, m, verdict) ==
  LET r == cached_classify_text(cache, q, m)
  IN /\ cache' = r.cache
     /\ guard' = [op |-> op, text |-> q, outcome |-> r.outcome,
                  model |-> IF r.outcome \in {"raised", "scored"} THEN m
                            ELSE NoModelCall,
                  result |-> verdict]

\* PromptGuard.check_query(query)
GuardCheckQuery ==
  /\ \E q \in GuardTexts, m \in GuardModels :
       guard_call("check_query", q, m,
                  query_verdict(cached_classify_text(cache, q, m).result))
  /\ UNCHANGED <<main, rest, cls, reqs, minted>>

\* PromptGuard.check_response(response)
GuardCheckResponse ==
  /\ \E q \in GuardTexts, m \in GuardModels :
       guard_call("check_response", q, m,
                  response_verdict(cached_classify_text(cache, q, m).result))
  /\ UNCHANGED <<main, rest, cls, reqs, minted>>

\* PromptGuard.get_blocked_response(is_query)
GuardBlockedResponse ==
  /\ \E is_query \in BOOLEAN :
       guard' = [op |-> "get_blocked_response", is_query |-> is_query,
                 payload |-> get_blocked_response(is_query)]
  /\ UNCHANGED <<main, rest, cache, cls, reqs, minted>>

NextGuard ==
  \/ GuardCheckQuery
  \/ GuardCheckResponse
  \/ GuardBlockedResponse

SpecGuard == Init /\ [][NextGuard]_vars

(* -------------------- QueryClassifier on its own ------------------------ *)

\* the routes of the candidate descriptions, in the order classify passes them
HYPOTHESES == <<"agent", "semantic", "simple">>

Alphabet == {"p", "l", "a", "n", " ", ".", "#"}

ClassifierTexts == UNION { [1..n -> Alphabet] : n \in 0..MaxLen }

PipelineScores == {5, 91}

Permutations3 ==
  { p \in [1..3 -> 1..3] : \A i, j \in 1..3 : i # j => p[i] # p[j] }

\* what the zero-shot pipeline returns: the candidates and their scores,
\* sorted by descending score (equal scores in either order), or it raises
PipelineOutcomes ==
  { [ok |-> TRUE, labels |-> [i \in 1..3 |-> HYPOTHESES[p[i]]], scores |-> sc] :
      p \in Permutations3,
      sc \in { t \in [1..3 -> PipelineScores] : t[1] >= t[2] /\ t[2] >= t[3] } }
  \cup { [ok |-> FALSE, message |-> "CUDA out of memory"] }

\* QueryClassifier.classify(query)
ClsClassify ==
  /\ cls.pc = "idle"
  /\ \E cs \in ClassifierTexts, s \in PipelineOutcomes :
       cls' = [pc |-> "classified", query |-> cs, scorer |-> s,
               outcome |-> classify(Str(cs), NoHistory, s)]
  /\ UNCHANGED <<main, rest, cache, guard, reqs, minted>>

\* QueryClassifier.preprocess_query(query)
ClsPreprocess ==
  /\ cls.pc = "idle"
  /\ \E cs \in ClassifierTexts :
       cls' = [pc |-> "preprocessed", query |-> cs,
               raised |-> preprocess_error(Str(cs)) # "",
               text |-> IF preprocess_error(Str(cs)) # "" THEN <<>>
                        ELSE preprocess_query(Str(cs))]
  /\ UNCHANGED <<main, rest, cache, guard, reqs, minted>>

\* QueryClassifier.preprocess_query applied to the text it returned
ClsPreprocessAgain ==
  /\ cls.pc = "preprocessed"
  /\ ~cls.raised
  /\ cls' = [pc |-> "preprocessed_twice", query |-> cls.query,
             first |-> cls.text,
             raised |-> preprocess_error(Str(cls.text)) # "",
             text |-> IF preprocess_error(Str(cls.text)) # "" THEN <<>>
                      ELSE preprocess_query(Str(cls.text))]
  /\ UNCHANGED <<main, rest, cache, guard, reqs, minted>>

\* lines 78-82: the text and the candidates classify hands to the scorer
scorer_arguments(q, h) ==
  [text |-> preprocess_query(q), candidates |-> HYPOTHESES]

PairTexts ==
  { <<>>, <<"#">>, <<"a", ".", ".">>, <<"p", "l", "a", "n">> }

\* the histories route_query passes to classify
ClassifierHistories == { process_history(h) : h \in Histories }

\* QueryClassifier.classify(query, h1) and classify(query, h2) with the same
\* scorer response
ClsClassifyPair ==
  /\ cls.pc = "idle"
  /\ \E cs \in PairTexts, h1 \in ClassifierHistories,
        h2 \in ClassifierHistories, s \in PipelineOutcomes :
       cls' = [pc |-> "classified_pair", query |-> cs, h1 |-> h1, h2 |-> h2,
               scorer |-> s,
               outcome1 |-> classify(Str(cs), h1, s),
               outcome2 |-> classify(Str(cs), h2, s),
               arguments1 |-> IF classify(Str(cs), h1, s).scorer_called
                              THEN scorer_arguments(Str(cs), h1) ELSE <<>>,
               arguments2 |-> IF classify(Str(cs), h2, s).scorer_called
                              THEN scorer_arguments(Str(cs), h2) ELSE <<>>]
  /\ UNCHANGED <<main, rest, cache, guard, reqs, minted>>

NextClassifier ==
  \/ ClsClassify
  \/ ClsClassifyPair
  \/ ClsPreprocess
  \/ ClsPreprocessAgain

SpecClassifier == Init /\ [][NextClassifier]_vars

(* ----------------- requests processed concurrently ---------------------- *)

ConcQueries == { Str(<<>>), Str(<<"H", "i", "?">>) }

ConcScorers ==
  { [ok |-> TRUE, scores |-> <<91, 5, 5>>],
    [ok |-> TRUE, scores |-> <<5, 91, 5>>],
    [ok |-> FALSE, message |-> "CUDA out of memory"] }

ConcCompletions ==
  { c \in CompletionOutcomes :
      \/ ~c.ok /\ c.message = "API error!"
      \/ c.content = PyStr("{\"route\": \"agent\"}") }

\* request r arrives at POST /route: the handler mints its trace id
ConcHttpPost(r) ==
  /\ reqs[r].pc = "idle"
  /\ \E q \in ConcQueries :
       reqs' = [reqs EXCEPT ![r] =
                  [pc |-> "route_query", entry |-> "http",
                   passed |-> handler_trace_id(minted), tid |-> NoTrace,
                   query |-> q, primary |-> NoPrimary, decision |-> EmptyDict]]
  /\ minted' = minted + 1
  /\ UNCHANGED <<main, rest, cache, guard, cls>>

\* request r is a direct call of route_query, with or without a trace id
ConcDirectCall(r) ==
  /\ reqs[r].pc = "idle"
  /\ \E q \in ConcQueries, tid \in {NoTrace, CallerTrace} :
       reqs' = [reqs EXCEPT ![r] =
                  [pc |-> "route_query", entry |-> "direct",
                   passed |-> tid, tid |-> NoTrace,
                   query |-> q, primary |-> NoPrimary, decision |-> EmptyDict]]
  /\ UNCHANGED <<main, rest, cache, guard, cls, minted>>

\* route_query of request r from entry to the end of the safety check
ConcEnter(r) ==
  /\ reqs[r].pc = "route_query"
  /\ LET tid == IF reqs[r].passed = NoTrace THEN Uuid(minted + 1)
                ELSE reqs[r].passed
     IN /\ minted' = IF reqs[r].passed = NoTrace THEN minted + 1 ELSE minted
        /\ reqs' = [reqs EXCEPT ![r] =
             IF invalid_query(reqs[r].query)
             THEN [reqs[r] EXCEPT !.pc = "returned", !.tid = tid,
                     !.decision = error_decision("Invalid query format", tid)]
             ELSE IF ~is_safe(reqs[r].query, NoModelCall)
             THEN [reqs[r] EXCEPT !.pc = "returned", !.tid = tid,
                     !.decision = blocked_decision(tid)]
             ELSE [reqs[r] EXCEPT !.pc = "classify", !.tid = tid]]
  /\ UNCHANGED <<main, rest, cache, guard, cls>>

\* route_query of request r: the primary classification and the acceptance
ConcClassify(r) ==
  /\ reqs[r].pc = "classify"
  /\ \E scorer \in ConcScorers :
       LET c == classify(reqs[r].query, NoHistory, scorer)
           p == [status |-> c.status, message |-> c.message,
                 route |-> c.route, confidence |-> c.confidence]
       IN reqs' = [reqs EXCEPT ![r] =
            IF c.status = "raised"
            THEN [reqs[r] EXCEPT !.pc = "returned", !.primary = p,
                    !.decision = error_decision(c.message, reqs[r].tid)]
            ELSE IF accept_primary(c.route, c.confidence)
            THEN [reqs[r] EXCEPT !.pc = "returned", !.primary = p,
                    !.decision = primary_decision(c.route, c.confidence,
                                                  reqs[r].tid)]
            ELSE [reqs[r] EXCEPT !.pc = "fallback", !.primary = p]]
  /\ UNCHANGED <<main, rest, cache, guard, cls, minted>>

\* route_query of request r: the LLM fallback
ConcFallback(r) ==
  /\ reqs[r].pc = "fallback"
  /\ \E c \in ConcCompletions :
       reqs' = [reqs EXCEPT ![r] =
         [reqs[r] EXCEPT !.pc = "returned",
            !.decision = fallback_decision(LLMRouter_route(c),
                           reqs[r].primary.route, reqs[r].primary.confidence,
                           reqs[r].tid)]]
  /\ UNCHANGED <<main, rest, cache, guard, cls, minted>>

NextConcurrent ==
  \E r \in Requests :
    \/ ConcHttpPost(r)
    \/ ConcDirectCall(r)
    \/ ConcEnter(r)
    \/ ConcClassify(r)
    \/ ConcFallback(r)

SpecConcurrent == Init /\ [][NextConcurrent]_vars

(* ------------------ LLMRouter._build_prompt on its own ------------------ *)

PromptQueries == {"What is the capital of France?", "Hi", "plan"}

PromptTurns == {"Hi", "How are you?", "plan"}

PromptHistories ==
  { [isNone |-> TRUE, turns |-> <<>>] }
  \cup { [isNone |-> FALSE, turns |-> t] :
           t \in UNION { [1..n -> PromptTurns] : n \in 0..MaxHistory } }

\* LLMRouter._build_prompt(query, history), called twice
BuildPrompt ==
  /\ prompt.pc = "idle"
  /\ \E q \in PromptQueries, h \in PromptHistories :
       prompt' = [pc |-> "built", query |-> q, history |-> h,
                  messages |-> build_prompt(q, h),
                  again |-> build_prompt(q, h)]
  /\ UNCHANGED <<main, cache, guard, cls, reqs, minted, handler, running>>

NextPrompt == BuildPrompt

SpecPrompt == Init /\ [][NextPrompt]_vars

(* ------------------- requests on the one serving loop ------------------- *)
(* The handler is a coroutine that awaits route_query, which awaits         *)
(* classify; classify calls the pipeline and route calls litellm.completion *)
(* synchronously, so from its start to its response a handler never yields  *)
(* the loop.  running is the request whose handler holds the loop, 0 when   *)
(* the loop is free.                                                        *)

\* request r reaches the server and waits for the loop
LoopReceive(r) ==
  /\ reqs[r].pc = "idle"
  /\ \E q \in ConcQueries :
       reqs' = [reqs EXCEPT ![r] =
                  [pc |-> "received", tid |-> NoTrace, query |-> q,
                   primary |-> NoPrimary, decision |-> EmptyDict]]
  /\ UNCHANGED <<main, cache, guard, cls, minted, prompt, handler, running>>

\* the loop starts the handler of r: trace id, route_query up to the
\* safety check
LoopStart(r) ==
  /\ running = 0
  /\ reqs[r].pc = "received"
  /\ running' = r
  /\ minted' = minted + 1
  /\ LET tid == handler_trace_id(minted)
     IN reqs' = [reqs EXCEPT ![r] =
          IF invalid_query(reqs[r].query)
          THEN [reqs[r] EXCEPT !.pc = "returned", !.tid = tid,
                  !.decision = error_decision("Invalid query format", tid)]
          ELSE IF ~is_safe(reqs[r].query, NoModelCall)
          THEN [reqs[r] EXCEPT !.pc = "returned", !.tid = tid,
                  !.decision = blocked_decision(tid)]
          ELSE [reqs[r] EXCEPT !.pc = "classify", !.tid = tid]]
  /\ UNCHANGED <<main, cache, guard, cls, prompt, handler>>

\* classify of r enters the zero-shot pipeline call
LoopScoreBegin(r) ==
  /\ running = r
  /\ reqs[r].pc = "classify"
  /\ reqs' = [reqs EXCEPT ![r].pc = "scoring"]
  /\ UNCHANGED <<main, cache, guard, cls, minted, prompt, handler, running>>

\* the pipeline call of r returns or raises; the acceptance policy
LoopScoreEnd(r) ==
  /\ running = r
  /\ reqs[r].pc = "scoring"
  /\ \E scorer \in ConcScorers :
       LET c == classify(reqs[r].query, NoHistory, scorer)
           p == [status |-> c.status, message |-> c.message,
                 route |-> c.route, confidence |-> c.confidence]
       IN reqs' = [reqs EXCEPT ![r] =
            IF c.status = "raised"
            THEN [reqs[r] EXCEPT !.pc = "returned", !.primary = p,
                    !.decision = error_decision(c.message, reqs[r].tid)]
            ELSE IF accept_primary(c.route, c.confidence)
            THEN [reqs[r] EXCEPT !.pc = "returned", !.primary = p,
                    !.decision = primary_decision(c.route, c.confidence,
                                                  reqs[r].tid)]
            ELSE [reqs[r] EXCEPT !.pc = "fallback", !.primary = p]]
  /\ UNCHANGED <<main, cache, guard, cls, minted, prompt, handler, running>>

\* LLMRouter.route of r enters litellm.completion
LoopCompletionBegin(r) ==
  /\ running = r
  /\ reqs[r].pc = "fallback"
  /\ reqs' = [reqs EXCEPT ![r].pc = "completing"]
  /\ UNCHANGED <<main, cache, guard, cls, minted, prompt, handler, running>>

\* the completion call of r returns or raises; the fallback decision
LoopCompletionEnd(r) ==
  /\ running = r
  /\ reqs[r].pc = "completing"
  /\ \E c \in ConcCompletions :
       reqs' = [reqs EXCEPT ![r] =
         [reqs[r] EXCEPT !.pc = "returned",
            !.decision = fallback_decision(LLMRouter_route(c),
                           reqs[r].primary.route, reqs[r].primary.confidence,
                           reqs[r].tid)]]
  /\ UNCHANGED <<main, cache, guard, cls, minted, prompt, handler, running>>

\* the handler of r answers and gives the loop back
LoopRespond(r) ==
  /\ running = r
  /\ reqs[r].pc = "returned"
  /\ reqs' = [reqs EXCEPT ![r].pc = "responded"]
  /\ running' = 0
  /\ UNCHANGED <<main, cache, guard, cls, minted, prompt, handler>>

NextLoop ==
  \E r \in Requests :
    \/ LoopReceive(r)
    \/ LoopStart(r)
    \/ LoopScoreBegin(r)
    \/ LoopScoreEnd(r)
    \/ LoopCompletionBegin(r)
    \/ LoopCompletionEnd(r)
    \/ LoopRespond(r)

SpecLoop == Init /\ [][NextLoop]_vars

(* ------------- the memoization cache of _classify_text filled ----------- *)
(* Texts are interchangeable, so new texts are checked in the order         *)
(* 1, 2, 3, ...; once the cache is full a text seen before is checked       *)
(* again: the one checked longest ago, the oldest and the middle one of the *)
(* last 128 checked, or the one checked last.  guard.used lists the numbers *)
(* of the texts seen, least recently checked first.                         *)

DigitChars == <<"0", "1", "2", "3", "4", "5", "6", "7", "8", "9">>

RECURSIVE decimal(_)
decimal(k) ==
  IF k < 10 THEN <<DigitChars[k + 1]>>
  ELSE decimal(k \div 10) \o <<DigitChars[(k % 10) + 1]>>

\* the k-th text
LruText(k) == Str(decimal(k))

\* what the safety model answers for the k-th text when it is first checked
LruFirstAnswer(k) ==
  CASE k % 3 = 0 -> [ok |-> TRUE, safe |-> 90, dangerous |-> 10]
    [] k % 3 = 1 -> [ok |-> TRUE, safe |-> 20, dangerous |-> 80]
    [] OTHER -> [ok |-> TRUE, safe |-> 50, dangerous |-> 50]

NoScores == [safe |-> -1, dangerous |-> -1]

lru_check(k, m, used, rechecks) ==
  LET q == LruText(k)
      r == cached_classify_text(cache, q, m)
  IN /\ cache' = r.cache
     /\ guard' = [op |-> "check_query", text |-> q, outcome |-> r.outcome,
                  model |-> IF r.outcome \in {"raised", "scored"} THEN m
                            ELSE NoModelCall,
                  stored |-> IF cache_hit(cache, q) THEN cache_get(cache, q)
                             ELSE NoScores,
                  scores |-> r.result,
                  result |-> query_verdict(r.result),
                  used |-> SelectSeq(used, LAMBDA u : u # k) \o <<k>>,
                  rechecks |-> rechecks]

\* check_query of a text not seen before
LruCheckNew ==
  /\ \/ /\ guard.op = "none"
        /\ lru_check(1, LruFirstAnswer(1), <<>>, 0)
     \/ /\ guard.op = "check_query"
        /\ Len(guard.used) < MaxTexts
        /\ lru_check(Len(guard.used) + 1, LruFirstAnswer(Len(guard.used) + 1),
                     guard.used, guard.rechecks)
  /\ UNCHANGED <<main, rest, cls, reqs, minted>>

\* the texts checked again, by their place in the order of last use
RecheckCandidates(used) ==
  LET n == Len(used)
      from == IF n > LruMaxsize THEN n - LruMaxsize + 1 ELSE 1
  IN { used[1], used[from], used[(from + n) \div 2], used[n] }

\* check_query of a text seen before, cached or evicted since
LruCheckAgain ==
  /\ guard.op = "check_query"
  /\ guard.rechecks < MaxRechecks
  /\ Len(cache) = LruMaxsize
  /\ \E k \in RecheckCandidates(guard.used), m \in GuardModels :
       lru_check(k, m, guard.used, guard.rechecks + 1)
  /\ UNCHANGED <<main, rest, cls, reqs, minted>>

NextLru ==
  \/ LruCheckNew
  \/ LruCheckAgain

SpecLru == Init /\ [][NextLru]_vars

(* ----------------- the POST /route handler on its own ------------------- *)
(* The handler against any behaviour of the awaited route_query: it returns *)
(* a decision or it raises.  An exception is                                *)
(* [type |-> class name, status |-> status code, detail |-> text].          *)

HTTPException(status, detail) ==
  [type |-> "HTTPException", status |-> status, detail |-> detail]

ResponseValidationError ==
  [type |-> "ValidationError", status |-> 0,
   detail |-> "validation error for RouteResponse"]

ServiceExceptions ==
  { [type |-> "Exception", status |-> 0, detail |-> "Unexpected service error"],
    [type |-> "RuntimeError", status |-> 0, detail |-> "CUDA out of memory"],
    [type |-> "TypeError", status |-> 0,
     detail |-> "'NoneType' object is not iterable"],
    [type |-> "KeyError", status |-> 0, detail |-> "'models'"] }

ServiceResults ==
  { error_decision(m, Uuid(1)) :
      m \in {"Invalid query format", "Query cannot be empty",
             "CUDA out of memory"} }
  \cup { blocked_decision(Uuid(1)) }
  \cup { primary_decision("simple", c, Uuid(1)) : c \in {75, 91} }
  \cup { fallback_decision(LLMRouter_route(c), "semantic", conf, Uuid(1)) :
           c \in CompletionOutcomes, conf \in {5, 74} }

ServiceOutcomes ==
  { [raised |-> FALSE, result |-> d] : d \in ServiceResults }
  \cup { [raised |-> TRUE, exc |-> e] : e \in ServiceExceptions }

HandlerQueries ==
  { Str(<<>>), Str(<<"H", "i", "?">>), Str(<<"p", "l", "a", "n">>) }

\* router.py lines 48-96: the try block, given what route_query did
handler_try(outcome, tid) ==
  IF outcome.raised THEN [raises |-> TRUE, exc |-> outcome.exc]
  ELSE IF outcome.result.route = PyStr("blocked")
  THEN [raises |-> TRUE,
        exc |-> HTTPException(400,
                  IF "reason" \in DOMAIN outcome.result
                  THEN outcome.result.reason
                  ELSE "Query contains unsafe content")]
  ELSE IF outcome.result.route = PyStr("error")
  THEN [raises |-> TRUE,
        exc |-> HTTPException(500,
                  IF "error" \in DOMAIN outcome.result
                  THEN outcome.result.error
                  ELSE "Failed to process query")]
  ELSE IF ~valid_response(outcome.result)
  THEN [raises |-> TRUE, exc |-> ResponseValidationError]
  ELSE [raises |-> FALSE,
        response |-> [status |-> 200, route |-> outcome.result.route,
                      confidence |-> outcome.result.confidence,
                      trace_id |-> IF "trace_id" \in DOMAIN outcome.result
                                   THEN outcome.result.trace_id ELSE tid]]

handler_except_leaks(exc) ==
  CASE exc.type = "ValidationError" ->
         [status |-> 422, detail |-> "Invalid request format"]
    [] exc.type = "HTTPException" ->
         [status |-> exc.status, detail |-> exc.detail]
    [] OTHER -> [status |-> 500, detail |-> exc.detail]

\* router.py lines 98-122: the except clauses
handler_except(exc) ==
  CASE exc.type = "ValidationError" ->
         [status |-> 422, detail |-> "Invalid request format"]
    [] exc.type = "HTTPException" ->
         [status |-> exc.status, detail |-> exc.detail]
    [] OTHER -> [status |-> 500, detail |-> "Failed to process query"]

\* POST /route with a valid body, from the minting of the trace id to the
\* HTTP response
HandlerRun ==
  /\ handler.pc = "idle"
  /\ \E q \in HandlerQueries, o \in ServiceOutcomes :
       LET t == handler_try(o, handler_trace_id(0))
       IN handler' = [pc |-> "responded", query |-> q, outcome |-> o,
                      response |-> IF t.raises THEN handler_except(t.exc)
                                   ELSE t.response]
  /\ UNCHANGED <<main, cache, guard, cls, reqs, minted, prompt, running>>

NextHandler == HandlerRun

SpecHandler == Init /\ [][NextHandler]_vars

(* ------------------------------ claims --------------------------------- *)

\* route_query has returned its decision for the current request
RouteQueryReturned ==
  pc \in {"returned", "done"} \/ (pc = "responded" /\ DOMAIN decision # {})

Labels == {PyStr("simple"), PyStr("semantic"), PyStr("agent")}

\* C1: once the primary classifier has returned (route, confidence), the
\* fallback is left out exactly when route is simple and confidence is at
\* least 0.75; semantic and agent fall back at every confidence.
C1_FallbackSkippedIffSimpleAndConfident ==
  (RouteQueryReturned /\ primary.status = "returned") =>
    /\ (llmCalls = 0) <=> (primary.route = "simple" /\ primary.confidence >= 75)
    /\ primary.route \in {"semantic", "agent"} => llmCalls = 1

C1_Witness ==
  /\ pc = "done"
  /\ primary.status = "returned"
  /\ primary.route = "semantic"
  /\ primary.confidence = 91
  /\ llmCalls = 1

\* C2: a query that the safety gate reports unsafe ends blocked, and neither
\* the primary classifier nor the fallback runs for it.
C2_UnsafeQueryIsBlocked ==
  (RouteQueryReturned /\ ~invalid_query(query)
     /\ ~check_query(query, guardModel).is_safe) =>
    /\ decision.route = PyStr("blocked")
    /\ classifierCalls = 0
    /\ llmCalls = 0

\* C3: when the primary classifier raises, the decision is route error,
\* confidence 0.0, error equal to the failure message, and the fallback is
\* not run.
C3_PrimaryFailureIsError ==
  (RouteQueryReturned /\ primary.status = "raised") =>
    /\ decision.route = PyStr("error")
    /\ decision.confidence = 0
    /\ decision.error = primary.message
    /\ llmCalls = 0
    /\ completionCalls = 0

C3_Witness ==
  /\ pc = "done"
  /\ primary.status = "raised"
  /\ primary.message = "CUDA out of memory"
  /\ scorerCalls = 1

C5_FallbackRouteAndConfidence ==
  (RouteQueryReturned /\ llmCalls > 0) =>
    /\ "route" \in DOMAIN llm_result
    /\ decision.route = llm_result.route
    /\ "confidence" \in DOMAIN llm_result
    /\ decision.confidence = llm_result.confidence

\* C5 amended: when the fallback runs, the decision's route is the one the
\* fallback returned; the fallback returns no confidence and the decision
\* carries the primary classifier's confidence.
C5_FallbackRoutePrimaryConfidence ==
  (RouteQueryReturned /\ llmCalls > 0) =>
    /\ "route" \in DOMAIN llm_result
    /\ decision.route = llm_result.route
    /\ "confidence" \notin DOMAIN llm_result
    /\ decision.confidence = primary.confidence

C5_Witness ==
  /\ pc = "done"
  /\ llmCalls = 1
  /\ primary.route = "agent"
  /\ primary.confidence = 74
  /\ decision.route = PyStr("simple")
  /\ decision.confidence = 74

\* C6: a decision whose route is neither error nor blocked has a route among
\* simple, semantic, agent and a confidence in [0.0, 1.0].
C6_AcceptedDecisionWellFormed ==
  (RouteQueryReturned /\ decision.route \notin {PyStr("error"), PyStr("blocked")}) =>
    /\ decision.route \in Labels
    /\ decision.confidence \in 0..100

\* the completion text is a JSON object with a route field
HasRouteField(content) ==
  /\ content.py = "str"
  /\ content.s \in { "{\"route\": \"simple\"}", "{\"route\": \"semantic\"}",
                     "{\"route\": \"agent\"}", "{\"route\": \"complex\"}",
                     "{\"route\": null}", "{\"route\": \"error\"}",
                     "{\"route\": \"blocked\"}" }

\* C7: a completion that succeeds with a text that is not JSON, or is JSON
\* without a route field, gives route semantic, error "json_parse_error" and
\* raw equal to the unparsed text.
C7_ParseFailureDegrades ==
  (llmCalls > 0 /\ completion.ok /\ completion.has_choices
     /\ ~HasRouteField(completion.content)) =>
    /\ DOMAIN llm_result = {"route", "error", "raw"}
    /\ llm_result.route = PyStr("semantic")
    /\ llm_result.error = "json_parse_error"
    /\ llm_result.raw = completion.content

C7_Witness ==
  /\ pc = "done"
  /\ llmCalls = 1
  /\ completion.ok
  /\ completion.content = PyStr("{\"answer\": \"Paris\"}")
  /\ llm_result.error = "json_parse_error"

\* C8: a completion call that fails gives route semantic, error equal to the
\* failure description and no raw field.
C8_CompletionFailureDegrades ==
  (llmCalls > 0 /\ ~completion.ok) =>
    /\ DOMAIN llm_result = {"route", "error"}
    /\ llm_result.route = PyStr("semantic")
    /\ llm_result.error = completion.message

C8_Witness ==
  /\ pc = "done"
  /\ llmCalls = 1
  /\ ~completion.ok
  /\ completion.message = "Request timed out"
  /\ decision.route = PyStr("semantic")

\* C9: a POST /route whose primary classification returned is answered 200
\* whatever the fallback stage does.
C9_FallbackNeverFailsRequest ==
  (pc = "responded" /\ primary.status = "returned") => response.status = 200

\* C10: the handler answers 400 with the block reason for a blocked decision,
\* 500 with the error text for an error decision, and 200 with route,
\* confidence and trace_id for every other decision.
C10_StatusMapping ==
  (pc = "responded" /\ DOMAIN decision # {}) =>
    IF decision.route = PyStr("blocked")
    THEN /\ response.status = 400
         /\ "reason" \in DOMAIN decision => response.detail = decision.reason
    ELSE IF decision.route = PyStr("error")
    THEN /\ response.status = 500
         /\ "error" \in DOMAIN decision => response.detail = decision.error
    ELSE /\ response.status = 200
         /\ response.route = decision.route
         /\ response.confidence = decision.confidence
         /\ response.trace_id = decision.trace_id

\* C12: when the safety model raises while classifying a text, check_query
\* and check_response report is_safe = true with confidence 1.0.
C12_GuardFailsOpen ==
  (guard.op \in {"check_query", "check_response"} /\ guard.outcome = "raised") =>
    /\ guard.result.is_safe
    /\ guard.result.confidence = 100

C12_Witness ==
  /\ guard.op = "check_response"
  /\ guard.outcome = "raised"
  /\ guard.text = Str(<<"H", "i", "?">>)

\* C19: for the scores (safe, dangerous) the model produced, check_query and
\* check_response return the larger score as confidence and is_safe exactly
\* when safe is strictly greater than dangerous.
C19_VerdictFromScores ==
  (guard.op \in {"check_query", "check_response"} /\ guard.outcome = "scored") =>
    /\ guard.result.confidence >= guard.model.safe
    /\ guard.result.confidence >= guard.model.dangerous
    /\ guard.result.confidence \in {guard.model.safe, guard.model.dangerous}
    /\ guard.result.is_safe <=> (guard.model.safe > guard.model.dangerous)

C19_Witness ==
  /\ guard.op = "check_query"
  /\ guard.outcome = "scored"
  /\ guard.model.safe = 50
  /\ guard.model.dangerous = 50
  /\ ~guard.result.is_safe

\* C20: get_blocked_response returns route semantic, confidence 0.0, flag
\* blocked and a message naming "query" or "response"; its route differs from
\* the route blocked of the orchestrator's blocked decision.
C20_BlockedPayload ==
  guard.op = "get_blocked_response" =>
    /\ guard.payload.route = PyStr("semantic")
    /\ guard.payload.confidence = 0
    /\ guard.payload.flag = "blocked"
    /\ guard.payload.message[2] = (IF guard.is_query THEN "query" ELSE "response")
    /\ blocked_decision(NoTrace).route = PyStr("blocked")
    /\ guard.payload.route # blocked_decision(NoTrace).route

C20_Witness ==
  /\ guard.op = "get_blocked_response"
  /\ ~guard.is_query
  /\ guard.payload.message[2] = "response"

\* the route of the top-scoring description, ties broken in the order of LABELS
top_route(s) ==
  LET top == { s.labels[i] : i \in { j \in 1..3 :
                 \A k \in 1..3 : s.scores[k] <= s.scores[j] } }
  IN LABELS[CHOOSE i \in 1..3 :
       LABELS[i] \in top /\ \A j \in 1..(i - 1) : LABELS[j] \notin top]

\* C13: classify returns the route of the description the scorer scored
\* highest (ties in the order simple, semantic, agent) together with that score.
C13_RouteOfTopDescription ==
  (cls.pc = "classified" /\ cls.outcome.status = "returned") =>
    /\ cls.outcome.route = top_route(cls.scorer)
    /\ \A k \in 1..3 : cls.scorer.scores[k] <= cls.outcome.confidence

\* the query after whitespace collapse, punctuation collapse and stripping of
\* disallowed characters
normalized(cs) ==
  strip_disallowed(collapse_punctuation(collapse_whitespace(strip(cs))))

\* C16: preprocess_query is idempotent: applied to the text it returned it
\* succeeds and returns the same text, keyword queries included.
C16_PreprocessIdempotent ==
  cls.pc = "preprocessed_twice" =>
    /\ ~cls.raised
    /\ cls.text = cls.first

\* C17: classify raises the empty-query error, without calling the scorer,
\* for every query whose normalized text is empty.
C17_EmptyNormalizedRaises ==
  (cls.pc = "classified" /\ normalized(cls.query) = <<>>) =>
    /\ cls.outcome.status = "raised"
    /\ cls.outcome.message = "Query cannot be empty"
    /\ ~cls.outcome.scorer_called

\* C11: every decision returned for a request carries a trace_id, the one
\* passed in or else the one minted at entry, and no two requests that
\* entered through POST /route and are in progress together share a trace_id.
C11_TraceIdPerRequest ==
  /\ \A r \in Requests :
       reqs[r].pc = "returned" =>
         /\ "trace_id" \in DOMAIN reqs[r].decision
         /\ reqs[r].decision.trace_id = reqs[r].tid
         /\ reqs[r].tid # NoTrace
         /\ reqs[r].passed # NoTrace => reqs[r].tid = reqs[r].passed
         /\ reqs[r].passed = NoTrace => reqs[r].tid.src = "uuid4"
  /\ \A r1, r2 \in Requests :
       ( /\ r1 # r2
         /\ reqs[r1].pc # "idle" /\ reqs[r1].entry = "http"
         /\ reqs[r2].pc # "idle" /\ reqs[r2].entry = "http" ) =>
         /\ reqs[r1].passed # reqs[r2].passed
         /\ (reqs[r1].pc = "returned" /\ reqs[r2].pc = "returned") =>
              reqs[r1].decision.trace_id # reqs[r2].decision.trace_id

C11_Witness ==
  /\ reqs[1].pc = "returned" /\ reqs[1].entry = "http"
  /\ reqs[2].pc = "returned" /\ reqs[2].entry = "http"
  /\ reqs[1].decision.route = PyStr("error")
  /\ "model" \in DOMAIN reqs[2].decision
  /\ reqs[2].decision.model = "llm"
  /\ reqs[1].decision.trace_id = Uuid(2)
  /\ reqs[2].decision.trace_id = Uuid(1)

\* C14 as stated: a decision tagged with the classifier's name has route
\* simple and confidence at least 0.75, and every other returned decision,
\* error and blocked decisions included, is tagged as the fallback's.
C14_EveryDecisionTagged ==
  RouteQueryReturned =>
    /\ "model" \in DOMAIN decision
    /\ decision.model = ClassifierModelName =>
         (decision.route = PyStr("simple") /\ decision.confidence >= 75)
    /\ decision.model # ClassifierModelName => decision.model = "llm"

\* C14 amended: a decision tagged with the classifier's name has route simple
\* and confidence at least 0.75 and was made without the fallback; a decision
\* is tagged llm exactly when the fallback ran; a decision made without a
\* primary result (validation error, primary failure) carries no tag.
C14_TagFollowsStage ==
  RouteQueryReturned =>
    /\ ("model" \in DOMAIN decision /\ decision.model = ClassifierModelName) =>
         /\ decision.route = PyStr("simple")
         /\ decision.confidence >= 75
         /\ llmCalls = 0
    /\ ("model" \in DOMAIN decision /\ decision.model = "llm") <=> llmCalls > 0
    /\ primary.status = "returned" =>
         ("model" \in DOMAIN decision
            /\ decision.model \in {ClassifierModelName, "llm"})
    /\ primary.status # "returned" =>
         ("model" \notin DOMAIN decision /\ decision.route = PyStr("error"))

C14_Witness ==
  /\ pc = "done"
  /\ primary.status = "raised"
  /\ decision.route = PyStr("error")
  /\ "model" \notin DOMAIN decision
  /\ classifierCalls = 1

\* C15: a query that is empty after trimming whitespace is rejected by the
\* validation step of route_query: the decision is route error and neither
\* the safety gate nor the primary classifier nor the fallback is invoked.
C15_BlankQueryRejectedByValidation ==
  (RouteQueryReturned /\ query.py = "str" /\ strip(query.chars) = <<>>) =>
    /\ decision.route = PyStr("error")
    /\ gateCalls = 0
    /\ classifierCalls = 0
    /\ llmCalls = 0

\* the value of the route field of a completion text
RouteFieldOf(text) ==
  CASE text = "{\"route\": \"simple\"}" -> PyStr("simple")
    [] text = "{\"route\": \"semantic\"}" -> PyStr("semantic")
    [] text = "{\"route\": \"agent\"}" -> PyStr("agent")
    [] text = "{\"route\": \"complex\"}" -> PyStr("complex")
    [] text = "{\"route\": \"error\"}" -> PyStr("error")
    [] text = "{\"route\": \"blocked\"}" -> PyStr("blocked")
    [] text = "{\"route\": null}" -> PyNone

\* C18: a completion text that parses as a JSON object with a route field
\* gives exactly that route, raw equal to the parsed object, and neither a
\* confidence nor an error field.
C18_ValidJsonRouteReturned ==
  (llmCalls > 0 /\ completion.ok /\ completion.has_choices
     /\ HasRouteField(completion.content)) =>
    /\ DOMAIN llm_result = {"route", "raw"}
    /\ llm_result.route = RouteFieldOf(completion.content.s)
    /\ llm_result.raw = [py |-> "dict", s |-> completion.content.s]

C18_Witness ==
  /\ pc = "done"
  /\ llmCalls = 1
  /\ completion.content = PyStr("{\"route\": \"complex\"}")
  /\ llm_result.route = PyStr("complex")
  /\ "error" \notin DOMAIN llm_result

\* C21: classify does not depend on history: with the same query and the
\* same scorer response, two histories give the same scorer arguments and
\* the same outcome (route, confidence or failure).
C21_HistoryIndependent ==
  cls.pc = "classified_pair" =>
    /\ cls.arguments1 = cls.arguments2
    /\ cls.outcome1 = cls.outcome2

C21_Witness ==
  /\ cls.pc = "classified_pair"
  /\ cls.h1.isNone
  /\ ~cls.h2.isNone /\ Len(cls.h2.turns) = 2
  /\ cls.outcome1.status = "returned"
  /\ cls.outcome2.status = "returned"
  /\ cls.arguments2.text = ComplexPrefix \o <<"p", "l", "a", "n">>

\* C22: the message list of _build_prompt for a history of n turns has n + 2
\* entries: the system instruction, then the turns in their original order,
\* then the query; the same inputs give the same list.
C22_PromptLayout ==
  prompt.pc = "built" =>
    LET n == Len(prompt.history.turns)
        m == prompt.messages
    IN /\ Len(m) = n + 2
       /\ m[1] = [role |-> "system", content |-> SystemInstruction]
       /\ \A i \in 1..n : m[i + 1].content = prompt.history.turns[i]
       /\ m[n + 2] = [role |-> "user", content |-> prompt.query]
       /\ prompt.again = m

C22_Witness ==
  /\ prompt.pc = "built"
  /\ prompt.query = "Hi"
  /\ prompt.history.turns = <<"plan", "How are you?", "Hi">>
  /\ Len(prompt.messages) = 5
  /\ prompt.messages[2].content = "plan"

\* C23: per request LLMRouter.route is called at most once and each call
\* makes exactly one completion call, whatever the completion does.
C23_CompletionCalledOnce ==
  /\ llmCalls <= 1
  /\ completionCalls = llmCalls

C23_Witness ==
  /\ pc = "returned"
  /\ llmCalls = 1
  /\ completionCalls = 1
  /\ completion.content = PyStr("not a json")
  /\ llm_result.error = "json_parse_error"

\* C24: while one request is inside the primary scoring call or the fallback
\* completion call, another request that has been received can start its
\* own stages.
C24_OthersProgress ==
  \A r1, r2 \in Requests :
    ( /\ r1 # r2
      /\ reqs[r1].pc \in {"scoring", "completing"}
      /\ reqs[r2].pc = "received" ) => ENABLED LoopStart(r2)

\* the terminal outcomes of route_query, by the path that made the decision
Errored == invalid_query(query) \/ primary.status = "raised"

Blocked ==
  ~invalid_query(query) /\ primary.status = "none"
    /\ decision.route = PyStr("blocked")

Completed == primary.status = "returned"

C25_StagesInOrder ==
  /\ gateCalls <= 1 /\ classifierCalls <= 1 /\ llmCalls <= 1
  /\ classifierCalls > 0 => (pc # "route_query" /\ ~invalid_query(query))
  /\ llmCalls > 0 => (classifierCalls = 1 /\ primary.status = "returned")
  /\ pc \in {"route_query", "classify", "fallback"} => DOMAIN decision = {}
  /\ RouteQueryReturned =>
       /\ DOMAIN decision # {}
       /\ Errored \/ Blocked \/ Completed
       /\ ~(Errored /\ Blocked) /\ ~(Errored /\ Completed)
       /\ ~(Blocked /\ Completed)

\* C25: every call of route_query returns one decision in exactly one of the
\* outcomes Completed, Blocked, Errored; the stages run in the order
\* validation, safety check, primary, fallback, each at most once, the
\* fallback only after the primary returned a result; the decision, once
\* returned, is not replaced.
C25_OneDecisionInOrder ==
  /\ []C25_StagesInOrder
  /\ [][pc = "returned" => decision' = decision]_vars
  /\ (pc = "route_query") ~> (pc = "returned")

C25_Witness ==
  /\ pc = "returned"
  /\ Completed
  /\ classifierCalls = 1
  /\ llmCalls = 1
  /\ decision.model = "llm"
  /\ entry = "direct"

\* C26: a fail-open result produced because the safety model raised is not
\* stored in the cache, so a later check of the same text calls the model.
C26_FailOpenNotCached ==
  (guard.op \in {"check_query", "check_response"} /\ guard.outcome = "raised") =>
    ~cache_hit(cache, guard.text)

TimingKeys == {"classifier_time_ms", "llm_time_ms", "total_router_time_ms"}

\* C27 as stated: every Completed decision comes with the three timing
\* entries, the fallback entry zero exactly when the fallback was skipped,
\* whatever the optional arguments of route_query.
C27_TimingAlwaysRecorded ==
  (RouteQueryReturned /\ Completed) =>
    /\ DOMAIN timing = TimingKeys
    /\ (timing.llm_time_ms = 0) <=> (llmCalls = 0)

\* C27 amended: with timing_enabled a Completed decision is returned beside
\* a timing record of the three entries, the fallback entry zero when the
\* fallback was skipped and the total at least the sum of the two steps;
\* without timing_enabled the record is empty; the decision itself holds no
\* timing entry.
C27_TimingWhenEnabled ==
  (RouteQueryReturned /\ Completed) =>
    /\ timing_enabled =>
         /\ DOMAIN timing = TimingKeys
         /\ llmCalls = 0 => timing.llm_time_ms = 0
         /\ timing.total_router_time_ms >=
              timing.classifier_time_ms + timing.llm_time_ms
    /\ ~timing_enabled => DOMAIN timing = {}
    /\ DOMAIN decision \cap TimingKeys = {}

C27_Witness ==
  /\ pc = "done"
  /\ Completed
  /\ ~timing_enabled
  /\ llmCalls = 1
  /\ DOMAIN timing = {}

\* the numbers of the texts checked most recently, as many as the cache holds
MostRecentlyUsed ==
  LET n == Len(guard.used)
      from == IF n > LruMaxsize THEN n - LruMaxsize + 1 ELSE 1
  IN SubSeq(guard.used, from, n)

\* C28: the cache of _classify_text holds at most 128 entries keyed by the
\* exact text; a check of a cached text returns the stored scores without
\* calling the model; a full cache evicts its least recently used entry, so
\* it always holds the texts checked most recently.
C28_BoundedLruCache ==
  /\ Len(cache) <= LruMaxsize
  /\ \A i, j \in 1..Len(cache) : cache[i].text = cache[j].text => i = j
  /\ guard.op = "check_query" =>
       /\ Len(cache) = Len(MostRecentlyUsed)
       /\ \A i \in 1..Len(cache) :
            cache[i].text = LruText(MostRecentlyUsed[i])
       /\ (guard.outcome = "hit") <=> (guard.stored # NoScores)
       /\ guard.outcome = "hit" => guard.scores = guard.stored
       /\ guard.outcome # "hit" => guard.outcome \in {"raised", "scored"}

C28_Witness ==
  /\ guard.op = "check_query"
  /\ guard.rechecks = 1
  /\ guard.text = LruText(LruMaxsize + 1)
  /\ guard.outcome = "scored"
  /\ Len(cache) = LruMaxsize
  /\ cache_hit(cache, LruText(1))
  /\ ~cache_hit(cache, LruText(2))

\* C29: when the route_query call of the handler raises an unexpected
\* exception the response is 500 with the fixed detail "Failed to process
\* query", not the exception's message; the HTTP error raised for a blocked
\* or error decision keeps its own status and detail.
C29_UnexpectedExceptionIs500 ==
  handler.pc = "responded" =>
    /\ handler.outcome.raised =>
         /\ handler.response =
              [status |-> 500, detail |-> "Failed to process query"]
         /\ handler.response.detail # handler.outcome.exc.detail
    /\ (~handler.outcome.raised
          /\ handler.outcome.result.route = PyStr("blocked")) =>
         /\ handler.response.status = 400
         /\ "reason" \in DOMAIN handler.outcome.result =>
              handler.response.detail = handler.outcome.result.reason
    /\ (~handler.outcome.raised
          /\ handler.outcome.result.route = PyStr("error")) =>
         /\ handler.response.status = 500
         /\ "error" \in DOMAIN handler.outcome.result =>
              handler.response.detail = handler.outcome.result.error
    /\ ~handler.outcome.raised =>
         handler.response = http_response(handler.outcome.result, Uuid(1))

C29_Witness ==
  /\ handler.pc = "responded"
  /\ handler.outcome.raised
  /\ handler.outcome.exc.detail = "Unexpected service error"
  /\ handler.response.status = 500

EmptyQueryAnswered ==
  /\ pc = "responded"
  /\ entry = "http"
  /\ query = Str(<<>>)
  /\ valid_body(query, history)

====
